---- MODULE Spec2Model ----
(***************************************************************************)
(* A model of the `hand` console-output macros (src/io.rs).                *)
(*                                                                         *)
(* Text is a sequence of characters, one string per character: "ESC" is    *)
(* the byte 0x1b, "\n" the line feed, and a glyph is the sequence of its   *)
(* code points ("U+2139", "U+FE0F").  A format string is such a sequence,  *)
(* parsed as format_args! parses it.                                       *)
(***************************************************************************)
EXTENDS Integers, Sequences, FiniteSets, TLC

VARIABLES
  mode,     \* the build's cfg: "Live" (cfg(not(test))) or "Captured" (cfg(test))
  stream,   \* the characters written to the process's stderr so far
  lock,     \* the thread holding the stderr lock, or "none"
  pc,       \* per thread: "idle", "locking" (inside eprint!, before the lock), "writing"
  cur,      \* per thread: the call in progress (NoCall when idle)
  pend,     \* per thread: the pieces eprint! has still to write
  wrote,    \* per thread: what the call in progress has written so far
  last,     \* the call that finished last, with its outcome (NoLast once a call is entered)
  log,      \* the Live calls that returned, in the order they returned
  fd        \* the process's stderr descriptor: "open", "broken" (writes fail), "closed"

vars == <<mode, stream, lock, pc, cur, pend, wrote, last, log, fd>>

----------------------------------------------------------------------------
\* Text

ESC == "ESC"

RECURSIVE Flatten(_)
\* The concatenation of a sequence of texts.
Flatten(ps) == IF ps = <<>> THEN <<>> ELSE Head(ps) \o Flatten(Tail(ps))

\* pub mod marks: the six heads, as the code points of each string literal.
marks ==
  [ INFO    |-> <<"U+2139", "U+FE0F">>,
    WARN    |-> <<"U+26A0", "U+FE0F">>,
    ERROR   |-> <<"U+274C">>,
    SUCCESS |-> <<"U+2705">>,
    WAIT    |-> <<"U+231B">>,
    INPUT   |-> <<"U+2328", "U+FE0F">> ]

----------------------------------------------------------------------------
\* Arguments and their Display

\* An integer argument, a string argument, and a nested format_args!(..) value.
IntArg(n) == [t |-> "int", n |-> n, s |-> <<>>, c |-> <<>>, ok |-> TRUE]

StrArg(s) == [t |-> "str", n |-> 0, s |-> s, c |-> <<>>, ok |-> TRUE]

ArgsArg(r) == [t |-> "fmt", n |-> 0, s |-> <<>>, c |-> r.pieces, ok |-> r.ok]

Digit(d) ==
  CASE d = 0 -> "0" [] d = 1 -> "1" [] d = 2 -> "2" [] d = 3 -> "3" [] d = 4 -> "4"
    [] d = 5 -> "5" [] d = 6 -> "6" [] d = 7 -> "7" [] d = 8 -> "8" [] d = 9 -> "9"

RECURSIVE Digits(_)
\* The decimal digits of a natural number, most significant first.
Digits(n) == IF n < 10 THEN <<Digit(n)>> ELSE Digits(n \div 10) \o <<Digit(n % 10)>>

\* Display of an argument, as the pieces it hands to the formatter: an integer
\* its sign and digits, a string itself (nothing when empty), a nested
\* fmt::Arguments its own pieces.
ArgChunks(a) ==
  CASE a.t = "int" -> <<(IF a.n < 0 THEN <<"-">> ELSE <<>>) \o Digits(IF a.n < 0 THEN -a.n ELSE a.n)>>
    [] a.t = "str" -> IF a.s = <<>> THEN <<>> ELSE <<a.s>>
    [] a.t = "fmt" -> a.c

\* What a rejected format_args! stands for: the call does not compile.
CompileError == [ok |-> FALSE, pieces |-> <<>>]

RECURSIVE parse(_, _, _, _, _, _)
\* format_args!: "{}" takes the next argument, "{{" and "}}" are the literal
\* braces, a lone brace is rejected, and so is a count of placeholders that
\* differs from the count of arguments.  out holds the finished pieces, lit the
\* literal run being read.
parse(fmt, args, i, k, out, lit) ==
  LET close == IF lit = <<>> THEN out ELSE Append(out, lit)
      ch == fmt[i]
      nx == IF i < Len(fmt) THEN fmt[i + 1] ELSE "EOF"
  IN  IF i > Len(fmt) THEN
        IF k = Len(args) + 1 THEN [ok |-> TRUE, pieces |-> close] ELSE CompileError
      ELSE IF ch = "{" /\ nx = "{" THEN parse(fmt, args, i + 2, k, out, Append(lit, "{"))
      ELSE IF ch = "}" /\ nx = "}" THEN parse(fmt, args, i + 2, k, out, Append(lit, "}"))
      ELSE IF ch = "{" /\ nx = "}" THEN
        IF k > Len(args) THEN CompileError
        ELSE IF ~args[k].ok THEN CompileError
        ELSE parse(fmt, args, i + 2, k + 1, close \o ArgChunks(args[k]), <<>>)
      ELSE IF ch \in {"{", "}"} THEN CompileError
      ELSE parse(fmt, args, i + 1, k, out, Append(lit, ch))

\* A format_args! that does not check the arity: whatever the parse yields is accepted.
format_args_unchecked(fmt, args) ==
  [ok |-> TRUE, pieces |-> parse(fmt, args, 1, 1, <<>>, <<>>).pieces]

format_args(fmt, args) == parse(fmt, args, 1, 1, <<>>, <<>>)

----------------------------------------------------------------------------
\* The generic renderers

\* custom! writing two spaces between the head and the message.
custom_live_twospace(head, fmt, args) ==
  format_args(<<"{", "}", " ", " ", "{", "}">>, <<head, ArgsArg(format_args(fmt, args))>>)

\* custom! returning the head and the message with no space between them.
custom_test_nospace(head, fmt, args) ==
  format_args(<<"{", "}", "{", "}">>, <<head, ArgsArg(format_args(fmt, args))>>)

\* custom!, cfg(not(test)): eprint!("{} {}", $head, format_args!($($arg)*))
custom_live(head, fmt, args) ==
  format_args(<<"{", "}", " ", "{", "}">>, <<head, ArgsArg(format_args(fmt, args))>>)

\* custom!, cfg(test): format!("{} {}", $head, format_args!($($arg)*))
custom_test(head, fmt, args) ==
  format_args(<<"{", "}", " ", "{", "}">>, <<head, ArgsArg(format_args(fmt, args))>>)

\* The cfg attribute picks the definition of custom! the build sees.
custom(cfg, head, fmt, args) ==
  IF cfg = "Captured" THEN custom_test(head, fmt, args) ELSE custom_live(head, fmt, args)

\* customln! that hands its arguments to custom! as they are, without the "\n".
customln_nonewline(cfg, head, fmt, args) == custom(cfg, head, fmt, args)

\* customln!: custom!($head, "{}\n", format_args!($($arg)*))
customln(cfg, head, fmt, args) ==
  custom(cfg, head, <<"{", "}", "\n">>, <<ArgsArg(format_args(fmt, args))>>)

\* scopecustom! writing no space between the bracketed label and the head.
scopecustom_live_nosep(prefix, head, fmt, args) ==
  format_args(<<ESC, "[", "2", "m", "[", "{", "}", "]", ESC, "[", "0", "m",
                "{", "}", " ", "{", "}">>,
              <<prefix, head, ArgsArg(format_args(fmt, args))>>)

\* scopecustom! dimming the label alone, the brackets left plain (as precustom!
\* of print.rs does).
scopecustom_test_dimlabel(prefix, head, fmt, args) ==
  format_args(<<"[", ESC, "[", "2", "m", "{", "}", ESC, "[", "0", "m", "]", " ",
                "{", "}", " ", "{", "}">>,
              <<prefix, head, ArgsArg(format_args(fmt, args))>>)

\* scopecustom! that drops the head when it wraps a message.
scopecustom_test_headless(prefix, head, fmt, args) ==
  format_args(<<ESC, "[", "2", "m", "[", "{", "}", "]", ESC, "[", "0", "m", " ", "{", "}">>,
              <<prefix, ArgsArg(format_args(fmt, args))>>)

\* scopecustom!, cfg(not(test)):
\* eprint!("\u{1b}[2m[{}]\u{1b}[0m {} {}", $prefix, $head, format_args!($($arg)*))
scopecustom_live(prefix, head, fmt, args) ==
  format_args(<<ESC, "[", "2", "m", "[", "{", "}", "]", ESC, "[", "0", "m", " ",
                "{", "}", " ", "{", "}">>,
              <<prefix, head, ArgsArg(format_args(fmt, args))>>)

\* scopecustom!, cfg(test): format! of the same format string.
scopecustom_test(prefix, head, fmt, args) ==
  format_args(<<ESC, "[", "2", "m", "[", "{", "}", "]", ESC, "[", "0", "m", " ",
                "{", "}", " ", "{", "}">>,
              <<prefix, head, ArgsArg(format_args(fmt, args))>>)

scopecustom(cfg, prefix, head, fmt, args) ==
  IF cfg = "Captured" THEN scopecustom_test(prefix, head, fmt, args)
  ELSE scopecustom_live(prefix, head, fmt, args)

\* scopecustomln!: scopecustom!($prefix, $head, "{}\n", format_args!($($arg)*))
scopecustomln(cfg, prefix, head, fmt, args) ==
  scopecustom(cfg, prefix, head, <<"{", "}", "\n">>, <<ArgsArg(format_args(fmt, args))>>)

----------------------------------------------------------------------------
\* The per-kind families

\* macro_rules! info / infoln / scopeinfo / scopeinfoln: the INFO mark handed to the generic renderers.
info(cfg, fmt, args) == custom(cfg, StrArg(marks.INFO), fmt, args)

infoln(cfg, fmt, args) == customln(cfg, StrArg(marks.INFO), fmt, args)

scopeinfo(cfg, prefix, fmt, args) == scopecustom(cfg, prefix, StrArg(marks.INFO), fmt, args)

scopeinfoln(cfg, prefix, fmt, args) == scopecustomln(cfg, prefix, StrArg(marks.INFO), fmt, args)

\* macro_rules! warn / warnln / scopewarn / scopewarnln: the WARN mark handed to the generic renderers.
warn(cfg, fmt, args) == custom(cfg, StrArg(marks.WARN), fmt, args)

warnln(cfg, fmt, args) == customln(cfg, StrArg(marks.WARN), fmt, args)

scopewarn(cfg, prefix, fmt, args) == scopecustom(cfg, prefix, StrArg(marks.WARN), fmt, args)

scopewarnln(cfg, prefix, fmt, args) == scopecustomln(cfg, prefix, StrArg(marks.WARN), fmt, args)

\* macro_rules! success / successln / scopesuccess / scopesuccessln: the SUCCESS mark handed to the generic renderers.
success(cfg, fmt, args) == custom(cfg, StrArg(marks.SUCCESS), fmt, args)

successln(cfg, fmt, args) == customln(cfg, StrArg(marks.SUCCESS), fmt, args)

scopesuccess(cfg, prefix, fmt, args) == scopecustom(cfg, prefix, StrArg(marks.SUCCESS), fmt, args)

scopesuccessln(cfg, prefix, fmt, args) == scopecustomln(cfg, prefix, StrArg(marks.SUCCESS), fmt, args)

\* macro_rules! error / errorln / scopeerror / scopeerrorln: the ERROR mark handed to the generic renderers.
error(cfg, fmt, args) == custom(cfg, StrArg(marks.ERROR), fmt, args)

errorln(cfg, fmt, args) == customln(cfg, StrArg(marks.ERROR), fmt, args)

scopeerror(cfg, prefix, fmt, args) == scopecustom(cfg, prefix, StrArg(marks.ERROR), fmt, args)

scopeerrorln(cfg, prefix, fmt, args) == scopecustomln(cfg, prefix, StrArg(marks.ERROR), fmt, args)

\* macro_rules! wait / waitln / scopewait / scopewaitln: the WAIT mark handed to the generic renderers.
wait(cfg, fmt, args) == custom(cfg, StrArg(marks.WAIT), fmt, args)

waitln(cfg, fmt, args) == customln(cfg, StrArg(marks.WAIT), fmt, args)

scopewait(cfg, prefix, fmt, args) == scopecustom(cfg, prefix, StrArg(marks.WAIT), fmt, args)

scopewaitln(cfg, prefix, fmt, args) == scopecustomln(cfg, prefix, StrArg(marks.WAIT), fmt, args)

\* macro_rules! input / inputln / scopeinput / scopeinputln: the INPUT mark handed to the generic renderers.
input(cfg, fmt, args) == custom(cfg, StrArg(marks.INPUT), fmt, args)

inputln(cfg, fmt, args) == customln(cfg, StrArg(marks.INPUT), fmt, args)

scopeinput(cfg, prefix, fmt, args) == scopecustom(cfg, prefix, StrArg(marks.INPUT), fmt, args)

scopeinputln(cfg, prefix, fmt, args) == scopecustomln(cfg, prefix, StrArg(marks.INPUT), fmt, args)

\* The call surface: the macro a call names, expanded under the build's cfg.
Invoke(cfg, c) ==
  CASE c.entry = "custom" -> custom(cfg, c.head, c.fmt, c.args)
    [] c.entry = "customln" -> customln(cfg, c.head, c.fmt, c.args)
    [] c.entry = "scopecustom" -> scopecustom(cfg, c.prefix, c.head, c.fmt, c.args)
    [] c.entry = "scopecustomln" -> scopecustomln(cfg, c.prefix, c.head, c.fmt, c.args)
    [] c.entry = "info" -> info(cfg, c.fmt, c.args)
    [] c.entry = "infoln" -> infoln(cfg, c.fmt, c.args)
    [] c.entry = "scopeinfo" -> scopeinfo(cfg, c.prefix, c.fmt, c.args)
    [] c.entry = "scopeinfoln" -> scopeinfoln(cfg, c.prefix, c.fmt, c.args)
    [] c.entry = "warn" -> warn(cfg, c.fmt, c.args)
    [] c.entry = "warnln" -> warnln(cfg, c.fmt, c.args)
    [] c.entry = "scopewarn" -> scopewarn(cfg, c.prefix, c.fmt, c.args)
    [] c.entry = "scopewarnln" -> scopewarnln(cfg, c.prefix, c.fmt, c.args)
    [] c.entry = "success" -> success(cfg, c.fmt, c.args)
    [] c.entry = "successln" -> successln(cfg, c.fmt, c.args)
    [] c.entry = "scopesuccess" -> scopesuccess(cfg, c.prefix, c.fmt, c.args)
    [] c.entry = "scopesuccessln" -> scopesuccessln(cfg, c.prefix, c.fmt, c.args)
    [] c.entry = "error" -> error(cfg, c.fmt, c.args)
    [] c.entry = "errorln" -> errorln(cfg, c.fmt, c.args)
    [] c.entry = "scopeerror" -> scopeerror(cfg, c.prefix, c.fmt, c.args)
    [] c.entry = "scopeerrorln" -> scopeerrorln(cfg, c.prefix, c.fmt, c.args)
    [] c.entry = "wait" -> wait(cfg, c.fmt, c.args)
    [] c.entry = "waitln" -> waitln(cfg, c.fmt, c.args)
    [] c.entry = "scopewait" -> scopewait(cfg, c.prefix, c.fmt, c.args)
    [] c.entry = "scopewaitln" -> scopewaitln(cfg, c.prefix, c.fmt, c.args)
    [] c.entry = "input" -> input(cfg, c.fmt, c.args)
    [] c.entry = "inputln" -> inputln(cfg, c.fmt, c.args)
    [] c.entry = "scopeinput" -> scopeinput(cfg, c.prefix, c.fmt, c.args)
    [] c.entry = "scopeinputln" -> scopeinputln(cfg, c.prefix, c.fmt, c.args)

----------------------------------------------------------------------------
\* Calls and the inputs explored

\* An argument position the macro named by a call does not take.
NoArg == StrArg(<<>>)

NoCall == [entry |-> "none", prefix |-> NoArg, head |-> NoArg, fmt |-> <<>>, args |-> <<>>]

Kinds == {"info", "warn", "success", "error", "wait", "input"}

UnscopedEntries == Kinds \cup {"infoln", "warnln", "successln", "errorln", "waitln", "inputln"}

ScopedEntries ==
  {"scopeinfo", "scopewarn", "scopesuccess", "scopeerror", "scopewait", "scopeinput",
   "scopeinfoln", "scopewarnln", "scopesuccessln", "scopeerrorln", "scopewaitln",
   "scopeinputln"}

LnEntries ==
  {"customln", "scopecustomln", "infoln", "warnln", "successln", "errorln", "waitln",
   "inputln", "scopeinfoln", "scopewarnln", "scopesuccessln", "scopeerrorln",
   "scopewaitln", "scopeinputln"}

IsScoped(e) == e \in ScopedEntries \cup {"scopecustom", "scopecustomln"}

IsCustom(e) == e \in {"custom", "customln", "scopecustom", "scopecustomln"}

\* The entry of the same family and scope without the trailing "ln".
Base(e) ==
  CASE e = "customln" -> "custom" [] e = "scopecustomln" -> "scopecustom"
    [] e = "infoln" -> "info" [] e = "scopeinfoln" -> "scopeinfo"
    [] e = "warnln" -> "warn" [] e = "scopewarnln" -> "scopewarn"
    [] e = "successln" -> "success" [] e = "scopesuccessln" -> "scopesuccess"
    [] e = "errorln" -> "error" [] e = "scopeerrorln" -> "scopeerror"
    [] e = "waitln" -> "wait" [] e = "scopewaitln" -> "scopewait"
    [] e = "inputln" -> "input" [] e = "scopeinputln" -> "scopeinput"
    [] OTHER -> e

\* The unscoped entry of the same family and line ending.
Unscoped(e) ==
  CASE e = "scopecustom" -> "custom" [] e = "scopecustomln" -> "customln"
    [] e = "scopeinfo" -> "info" [] e = "scopeinfoln" -> "infoln"
    [] e = "scopewarn" -> "warn" [] e = "scopewarnln" -> "warnln"
    [] e = "scopesuccess" -> "success" [] e = "scopesuccessln" -> "successln"
    [] e = "scopeerror" -> "error" [] e = "scopeerrorln" -> "errorln"
    [] e = "scopewait" -> "wait" [] e = "scopewaitln" -> "waitln"
    [] e = "scopeinput" -> "input" [] e = "scopeinputln" -> "inputln"
    [] OTHER -> e

\* The mark kind of a per-kind entry.
KindOf(e) == Base(Unscoped(e))

\* The registry's mark of a kind.
HeadOf(k) ==
  CASE k = "info" -> marks.INFO [] k = "warn" -> marks.WARN
    [] k = "success" -> marks.SUCCESS [] k = "error" -> marks.ERROR
    [] k = "wait" -> marks.WAIT [] k = "input" -> marks.INPUT

\* The head a call renders: the caller's for the custom family, the registry's otherwise.
CallHead(c) == IF IsCustom(c.entry) THEN Flatten(ArgChunks(c.head)) ELSE HeadOf(KindOf(c.entry))

Msg(f, a) == [fmt |-> f, args |-> a]

\* Format strings with their argument lists.  Accepted: plain text, one
\* placeholder with a positive, a negative and a string argument, escaped braces
\* around a placeholder, two placeholders, the empty string.
GoodMsgs ==
  { Msg(<<"o", "k">>, <<>>),
    Msg(<<"n", "=", "{", "}">>, <<IntArg(123)>>),
    Msg(<<"n", "=", "{", "}">>, <<IntArg(-12)>>),
    Msg(<<"{", "{", "{", "}", "}", "}">>, <<StrArg(<<"x", "{", "}">>)>>),
    Msg(<<"{", "}", " ", "{", "}">>, <<IntArg(0), StrArg(<<"y">>)>>),
    Msg(<<>>, <<>>) }

\* Rejected: a placeholder too many, an argument too many, a lone brace.
BadMsgs ==
  { Msg(<<"{", "}", " ", "{", "}">>, <<IntArg(1)>>),
    Msg(<<"o", "k">>, <<IntArg(7)>>),
    Msg(<<"a", "{">>, <<>>) }

Msgs == GoodMsgs \cup BadMsgs

\* Scope labels: a word, and one holding brackets, braces and an escape byte.
Labels == { <<"d", "b">>, <<"]", "{", "}", ESC>> }

\* Heads for the custom family: a plain one and a styled one ("!".yellow().bold()).
Heads == { <<"#">>, <<ESC, "[", "1", ";", "3", "3", "m", "!", ESC, "[", "0", "m">> }

Call(e, p, h, f, a) == [entry |-> e, prefix |-> p, head |-> h, fmt |-> f, args |-> a]

\* Every entry point on the messages ms, the labels ls and the custom heads hs.
CallsOver(ms, ls, hs) ==
  {Call(e, NoArg, NoArg, m.fmt, m.args) : e \in UnscopedEntries, m \in ms}
    \cup {Call(e, StrArg(l), NoArg, m.fmt, m.args) : e \in ScopedEntries, l \in ls, m \in ms}
    \cup {Call(e, NoArg, StrArg(h), m.fmt, m.args) : e \in {"custom", "customln"}, h \in hs, m \in ms}
    \cup {Call(e, StrArg(l), StrArg(h), m.fmt, m.args) :
            e \in {"scopecustom", "scopecustomln"}, l \in ls, h \in hs, m \in ms}

\* Calls of the crate's own tests and documentation.
TestInfo == Call("info", NoArg, NoArg, <<"t", "e", "s", "t", " ", "i", "n", "f", "o">>, <<>>)

TestInfoln == Call("infoln", NoArg, NoArg, <<"t", "e", "s", "t", " ", "i", "n", "f", "o", "l", "n">>, <<>>)

TestScopeinfoln == Call("scopeinfoln", StrArg(<<"p", "r", "e", "i", "n", "f", "o", "l", "n">>), NoArg, <<"s", "o", "m", "e", " ", "f", "o", "r", "m", "a", "t", "t", "i", "n", "g", " ", "{", "}">>, <<IntArg(123)>>)

TestScopewaitln == Call("scopewaitln", StrArg(<<"p", "r", "e", "w", "a", "i", "t", "l", "n">>), NoArg, <<"s", "o", "m", "e", " ", "f", "o", "r", "m", "a", "t", "t", "i", "n", "g", " ", "{", "}">>, <<IntArg(123)>>)

TestArity == Call("info", NoArg, NoArg, <<"t", "w", "o", ":", " ", "{", "}", " ", "{", "}">>, <<IntArg(1)>>)

TestCalls == {TestInfo, TestInfoln, TestScopeinfoln, TestScopewaitln, TestArity}

AllCalls == CallsOver(Msgs, Labels, Heads) \cup TestCalls

----------------------------------------------------------------------------
\* The two sinks

\* A Captured sink that also writes what it returns.
format_writes(st, r) == [stream |-> st \o Flatten(r.pieces), ret |-> Flatten(r.pieces)]

\* format!: the pieces collected into an owned String; stderr is not touched.
format(st, r) == [stream |-> st, ret |-> Flatten(r.pieces)]

\* A write that puts the piece in front of what stderr already holds.
write_piece_front(st, piece) == piece \o st

\* A write path that does not wait for the stderr lock.
CanLock_always(holder) == TRUE

\* eprint! takes the process-wide stderr lock before it writes: a thread gets it
\* only while no thread holds it.
CanLock(holder) == holder = "none"

\* One write of eprint! under the lock: the next piece goes to stderr as it is.
write_piece(st, piece) == st \o piece

----------------------------------------------------------------------------
\* The state machine

Threads == {"t1", "t2"}

Finished(t, c, out, ret, wr, inner) ==
  [thread |-> t, call |-> c, out |-> out, ret |-> ret, wrote |-> wr, inner |-> inner]

\* No call has finished since the process started or since a call was entered.
NoLast == Finished("none", NoCall, "none", <<>>, <<>>, <<>>)

InitOver(modes) ==
  /\ mode \in modes
  /\ stream = <<>>
  /\ lock = "none"
  /\ pc = [t \in Threads |-> "idle"]
  /\ cur = [t \in Threads |-> NoCall]
  /\ pend = [t \in Threads |-> <<>>]
  /\ wrote = [t \in Threads |-> <<>>]
  /\ last = NoLast
  /\ log = <<>>
  /\ fd = "open"

\* A call whose format string and arguments format_args! rejects: the build
\* fails, nothing of the call runs.
Reject(t, c, room) ==
  /\ mode = "Live" => room
  /\ pc[t] = "idle"
  /\ ~Invoke(mode, c).ok
  /\ last' = Finished(t, c, "error", <<>>, <<>>, <<>>)
  /\ UNCHANGED <<mode, stream, lock, pc, cur, pend, wrote, log, fd>>

\* cfg(test): the call is format!(..) and evaluates to the String.  inner lists
\* the calls whose returned Strings are nested in this call's argument.
CallCaptured(t, c, inner) ==
  /\ mode = "Captured"
  /\ pc[t] = "idle"
  /\ LET r == Invoke(mode, c)
         o == format(stream, r)
     IN  /\ r.ok
         /\ stream' = o.stream
         /\ last' = Finished(t, c, "String", o.ret, <<>>, inner)
  /\ UNCHANGED <<mode, lock, pc, cur, pend, wrote, log, fd>>

\* How many scoped calls may be nested inside a scoped call.
MaxNest == 1

\* Scoped calls of each kind that pass the String s through "{}".
NestCalls(s) ==
  {Call(e, StrArg(<<"o", "u", "t", "e", "r">>), NoArg, <<"{", "}">>, <<StrArg(s)>>) :
     e \in ScopedEntries \ LnEntries}

\* cfg(test): scopeK!("outer", "{}", scopeK!(..)), the String the last scoped
\* call returned being the message of the next one.
Nest(t, c) ==
  /\ last.out = "String"
  /\ last.call.entry \in ScopedEntries
  /\ Len(last.inner) < MaxNest
  /\ c \in NestCalls(last.ret)
  /\ CallCaptured(t, c, <<last.call>> \o last.inner)

\* cfg(not(test)): the call is eprint!(..); the thread enters it with the pieces
\* of its fmt::Arguments still to write.
CallLive(t, c, room) ==
  /\ mode = "Live"
  /\ room
  /\ pc[t] = "idle"
  /\ LET r == Invoke(mode, c)
     IN  /\ r.ok
         /\ pend' = [pend EXCEPT ![t] = r.pieces]
  /\ pc' = [pc EXCEPT ![t] = "locking"]
  /\ cur' = [cur EXCEPT ![t] = c]
  /\ wrote' = [wrote EXCEPT ![t] = <<>>]
  /\ last' = NoLast
  /\ UNCHANGED <<mode, stream, lock, log, fd>>

\* eprint!: stderr().lock()
Acquire(t) ==
  /\ pc[t] = "locking"
  /\ CanLock(lock)
  /\ lock' = t
  /\ pc' = [pc EXCEPT ![t] = "writing"]
  /\ UNCHANGED <<mode, stream, cur, pend, wrote, last, log, fd>>

\* eprint!: write_fmt hands the pieces to the unbuffered stderr one at a time.
Write(t) ==
  /\ pc[t] = "writing"
  /\ pend[t] # <<>>
  /\ fd = "open"
  /\ stream' = write_piece(stream, Head(pend[t]))
  /\ wrote' = [wrote EXCEPT ![t] = wrote[t] \o Head(pend[t])]
  /\ pend' = [pend EXCEPT ![t] = Tail(pend[t])]
  /\ UNCHANGED <<mode, lock, pc, cur, last, log, fd>>

\* eprint!: the lock guard is dropped and the call evaluates to ().
Return(t) ==
  /\ pc[t] = "writing"
  /\ pend[t] = <<>>
  /\ lock' = "none"
  /\ pc' = [pc EXCEPT ![t] = "idle"]
  /\ last' = Finished(t, cur[t], "unit", <<>>, wrote[t], <<>>)
  /\ log' = Append(log, [thread |-> t, call |-> cur[t]])
  /\ cur' = [cur EXCEPT ![t] = NoCall]
  /\ wrote' = [wrote EXCEPT ![t] = <<>>]
  /\ UNCHANGED <<mode, stream, pend, fd>>

\* eprint! on a closed stderr: the write fails with EBADF, which the raw stderr
\* handle reports as a complete write; the piece goes nowhere and write_fmt
\* carries on with the next one.
WriteDropped(t) ==
  /\ pc[t] = "writing"
  /\ pend[t] # <<>>
  /\ fd = "closed"
  /\ pend' = [pend EXCEPT ![t] = Tail(pend[t])]
  /\ UNCHANGED <<mode, stream, lock, pc, cur, wrote, last, log, fd>>

\* eprint! on a broken stderr: the write fails, write_fmt stops at that piece
\* and gives the error back, the lock guard is dropped, and eprint! panics with
\* "failed printing to stderr"; the panic unwinds the calling thread.
WriteFails(t) ==
  /\ pc[t] = "writing"
  /\ pend[t] # <<>>
  /\ fd = "broken"
  /\ lock' = "none"
  /\ pc' = [pc EXCEPT ![t] = "panicked"]
  /\ last' = Finished(t, cur[t], "panic", <<>>, wrote[t], <<>>)
  /\ pend' = [pend EXCEPT ![t] = <<>>]
  /\ cur' = [cur EXCEPT ![t] = NoCall]
  /\ wrote' = [wrote EXCEPT ![t] = <<>>]
  /\ UNCHANGED <<mode, stream, log, fd>>

\* The environment takes stderr away: the reader of the pipe goes ("broken"),
\* or the descriptor is closed ("closed").
Shut(how) ==
  /\ fd = "open"
  /\ fd' = how
  /\ UNCHANGED <<mode, stream, lock, pc, cur, pend, wrote, last, log>>

\* Spec: one thread of a process built either way.  A Captured build takes any
\* sequence of calls; a Live build is followed through its first writing call.
FirstCall == log = <<>> /\ \A t \in Threads : pc[t] = "idle"

Init == InitOver({"Live", "Captured"})

Next ==
  \/ \E c \in AllCalls : Reject("t1", c, FirstCall)
  \/ \E c \in AllCalls : CallCaptured("t1", c, <<>>)
  \/ \E c \in AllCalls : CallLive("t1", c, FirstCall)
  \/ Acquire("t1")
  \/ Write("t1")
  \/ Return("t1")

Spec == Init /\ [][Next]_vars

\* SpecNest: a Captured build whose scoped calls take the String of the scoped
\* call before them as their message.
NestBase ==
  {Call(e, StrArg(<<"i", "n">>), NoArg, m.fmt, m.args) :
     e \in ScopedEntries, m \in {Msg(<<"o", "k">>, <<>>), Msg(<<"n", "=", "{", "}">>, <<IntArg(-12)>>),
                                Msg(<<"{", "}", " ", "{", "}">>, <<IntArg(1)>>)}}

InitNest == InitOver({"Captured"})

NextNest ==
  \/ \E c \in NestBase : Reject("t1", c, TRUE)
  \/ \E c \in NestBase : CallCaptured("t1", c, <<>>)
  \/ \E c \in NestCalls(last.ret) : Nest("t1", c)

SpecNest == InitNest /\ [][NextNest]_vars

\* SpecLive: two threads of a Live build calling entry points concurrently.
MaxCalls == 3

\* The two calls of scopesuccess!'s documentation:
\* scopesuccess!("Installing", "Completed in {} secs.", 9); waitln!("Reboot in 3 seconds");
DocScopesuccess ==
  Call("scopesuccess", StrArg(<<"I", "n", "s", "t", "a", "l", "l", "i", "n", "g">>), NoArg,
       <<"C", "o", "m", "p", "l", "e", "t", "e", "d", " ", "i", "n", " ", "{", "}", " ", "s", "e", "c", "s", ".">>,
       <<IntArg(9)>>)

DocWaitln ==
  Call("waitln", NoArg, NoArg,
       <<"R", "e", "b", "o", "o", "t", " ", "i", "n", " ", "3", " ", "s", "e", "c", "o", "n", "d", "s">>,
       <<>>)

\* One call of each shape (scoped or not, "ln" or not, per-kind or custom,
\* with and without an argument), and one that is rejected.
LiveCalls ==
  { Call("info", NoArg, NoArg, <<"o", "k">>, <<>>),
    DocWaitln,
    DocScopesuccess,
    Call("scopeerrorln", StrArg(<<"d", "b">>), NoArg, <<"o", "k">>, <<>>),
    Call("customln", NoArg, StrArg(<<"#">>), <<"o", "k">>, <<>>),
    Call("scopecustom", StrArg(<<"d", "b">>), StrArg(<<"#">>), <<"o", "k">>, <<>>),
    Call("info", NoArg, NoArg, <<"n", "=", "{", "}">>, <<>>) }

InFlight == Cardinality({t \in Threads : pc[t] # "idle"})

Room == Len(log) + InFlight < MaxCalls

InitLive == InitOver({"Live"})

NextLive ==
  \E t \in Threads :
    \/ \E c \in LiveCalls : Reject(t, c, Room)
    \/ \E c \in LiveCalls : CallLive(t, c, Room)
    \/ Acquire(t)
    \/ Write(t)
    \/ Return(t)

SpecLive == InitLive /\ [][NextLive]_vars

\* SpecFail: SpecLive's threads making plain calls while stderr may break or be
\* closed at any moment.
FailCalls ==
  { Call("info", NoArg, NoArg, <<"o", "k">>, <<>>),
    DocWaitln }

NextFail ==
  \/ \E t \in Threads :
       \/ \E c \in FailCalls : CallLive(t, c, Room)
       \/ Acquire(t)
       \/ Write(t)
       \/ WriteDropped(t)
       \/ WriteFails(t)
       \/ Return(t)
  \/ \E how \in {"broken", "closed"} : Shut(how)

SpecFail == InitLive /\ [][NextFail]_vars

----------------------------------------------------------------------------
\* What the claims speak of

\* The text of a scope label or a custom head, as the caller wrote it.
TextOf(a) == a.s

\* The formatted message of a call: its format string with its arguments substituted.
Message(c) == Flatten(format_args(c.fmt, c.args).pieces)

\* The call rendered under a cfg, as one string.
Text(cfg, c) == Flatten(Invoke(cfg, c).pieces)

\* The text the last call rendered: the String it returned, or what it wrote.
Out == IF last.out = "String" THEN last.ret ELSE last.wrote

Rendered == last.out \in {"String", "unit"}

\* A text in the dim style.
Dim(s) == <<ESC, "[", "2", "m">> \o s \o <<ESC, "[", "0", "m">>

LnPart(c) == IF c.entry \in LnEntries THEN <<"\n">> ELSE <<>>

----------------------------------------------------------------------------
\* C1: every unscoped no-newline per-kind entry point renders the kind's mark
\* from the registry, one space, and the formatted message, and nothing else.
C1_BaseComposition ==
  (Rendered /\ last.call.entry \in Kinds) =>
    Out = HeadOf(last.call.entry) \o <<" ">> \o Message(last.call)

\* C1 witness: warn!("n={}", -12) has rendered the mark, a space and "n=-12".
C1_Witness ==
  /\ Rendered
  /\ last.call.entry = "warn"
  /\ Out = marks.WARN \o <<" ", "n", "=", "-", "1", "2">>

\* C2: an "ln" entry point renders what the entry point without "ln" renders on
\* the same inputs, followed by exactly one line feed.
C2_NewlineSuffix ==
  (Rendered /\ last.call.entry \in LnEntries) =>
    Out = Text(mode, [last.call EXCEPT !.entry = Base(last.call.entry)]) \o <<"\n">>

\* C2 witness: infoln!("test infoln") of the crate's tests has returned its
\* line, the line feed last and only there.
C2_Witness ==
  /\ last.out = "String"
  /\ last.call = TestInfoln
  /\ last.ret = marks.INFO \o <<" ", "t", "e", "s", "t", " ", "i", "n", "f", "o", "l", "n", "\n">>

\* C3: a scoped entry point renders ESC[2m[ label ]ESC[0m, one space, the head,
\* one space and the formatted message, the label verbatim.
C3_ScopeBytes ==
  (Rendered /\ IsScoped(last.call.entry)) =>
    Out = <<ESC, "[", "2", "m", "[">> \o TextOf(last.call.prefix)
            \o <<"]", ESC, "[", "0", "m", " ">>
            \o CallHead(last.call) \o <<" ">> \o Message(last.call) \o LnPart(last.call)

\* C3 witness: scopeerror! with a label of brackets, braces and an escape byte
\* has written the label as it is.
C3_Witness ==
  /\ last.out = "unit"
  /\ last.call.entry = "scopeerror"
  /\ last.call.fmt = <<"o", "k">>
  /\ last.wrote = <<ESC, "[", "2", "m", "[", "]", "{", "}", ESC, "]", ESC, "[", "0", "m", " ",
                    "U+274C", " ", "o", "k">>

\* C4: what a Live call writes is what the Captured call on the same inputs
\* returns, and a call one build rejects the other rejects.
C4_LiveEqualsCaptured ==
  /\ last.out = "unit" => Invoke("Captured", last.call).ok /\ last.wrote = Text("Captured", last.call)
  /\ last.out = "String" => Invoke("Live", last.call).ok /\ last.ret = Text("Live", last.call)
  /\ last.out = "error" => ~Invoke("Captured", last.call).ok /\ ~Invoke("Live", last.call).ok

\* C4 witness: a Live scopecustomln! with a styled head has written its line.
C4_Witness ==
  /\ mode = "Live"
  /\ last.out = "unit"
  /\ last.call.entry = "scopecustomln"
  /\ Len(TextOf(last.call.head)) > 1
  /\ last.wrote = Text("Captured", last.call)
  /\ stream = last.wrote

RECURSIVE LogText(_)
\* The lines of the Live calls that returned, whole, in the order they returned.
LogText(l) == IF l = <<>> THEN <<>> ELSE Text("Live", Head(l).call) \o LogText(Tail(l))

Writers == {t \in Threads : pc[t] = "writing"}

\* C5: with threads calling concurrently, stderr holds whole rendered lines one
\* after another, then at most one line in progress, itself contiguous: the
\* characters of two calls are never mixed.
C5_NoInterleaving ==
  /\ Cardinality(Writers) <= 1
  /\ \A t \in Writers : wrote[t] \o Flatten(pend[t]) = Text("Live", cur[t])
  /\ stream = LogText(log)
                \o (IF Writers = {} THEN <<>> ELSE wrote[CHOOSE t \in Writers : TRUE])

\* C5 witness: t2 is inside its call, waiting, while t1 is in the middle of a
\* line, after a whole line of t2 went out.
C5_Witness ==
  /\ pc["t1"] = "writing" /\ wrote["t1"] # <<>> /\ pend["t1"] # <<>>
  /\ pc["t2"] = "locking"
  /\ Len(log) = 1 /\ log[1].thread = "t2"
  /\ stream = Text("Live", log[1].call) \o wrote["t1"]

\* The bold colour SGR sequence the registry documentation gives each kind.
Colour(k) ==
  CASE k = "info" -> <<ESC, "[", "1", ";", "9", "4", "m">>
    [] k = "warn" -> <<ESC, "[", "1", ";", "3", "3", "m">>
    [] k = "error" -> <<ESC, "[", "1", ";", "9", "1", "m">>
    [] k = "success" -> <<ESC, "[", "1", ";", "9", "2", "m">>
    [] k = "wait" -> <<ESC, "[", "1", ";", "3", "5", "m">>

\* The scope prefix of a scoped call, as scopecustom! writes it; nothing otherwise.
ScopePart(c) ==
  IF IsScoped(c.entry) THEN Dim(<<"[">> \o TextOf(c.prefix) \o <<"]">>) \o <<" ">> ELSE <<>>

\* C6: the head every Info, Warn, Error, Success and Wait entry point renders
\* is the kind's glyph between its bold colour sequence and ESC[0m.
C6_ColouredHead ==
  (Rendered /\ ~IsCustom(last.call.entry) /\ KindOf(last.call.entry) # "input") =>
    Out = ScopePart(last.call)
            \o Colour(KindOf(last.call.entry)) \o HeadOf(KindOf(last.call.entry))
            \o <<ESC, "[", "0", "m">>
            \o <<" ">> \o Message(last.call) \o LnPart(last.call)

\* C7 as stated: a scoped entry point renders "[", the label alone in the dim
\* style, "] " and the unscoped rendering of the same call.
C7_ScopeWrapDimLabel ==
  (Rendered /\ IsScoped(last.call.entry)) =>
    Out = <<"[">> \o Dim(TextOf(last.call.prefix)) \o <<"]", " ">>
            \o Text(mode, [last.call EXCEPT !.entry = Unscoped(last.call.entry)])

\* C7 as amended: a scoped entry point renders the bracketed label, brackets
\* included, in the dim style, one space, and the unscoped rendering of the
\* same call unaltered.
C7_ScopeWrap ==
  (Rendered /\ IsScoped(last.call.entry)) =>
    Out = Dim(<<"[">> \o TextOf(last.call.prefix) \o <<"]">>) \o <<" ">>
            \o Text(mode, [last.call EXCEPT !.entry = Unscoped(last.call.entry)])

\* C7 witness: scopewarn!("db", "n={}", 123) has returned the dim "[db]", a
\* space and what warn!("n={}", 123) returns.
C7_Witness ==
  /\ last.out = "String"
  /\ last.call.entry = "scopewarn"
  /\ TextOf(last.call.prefix) = <<"d", "b">>
  /\ last.ret = <<ESC, "[", "2", "m", "[", "d", "b", "]", ESC, "[", "0", "m", " ">>
                  \o marks.WARN \o <<" ", "n", "=", "1", "2", "3">>

RECURSIVE Placeholders(_)
\* How many "{}" a format string holds, the escapes "{{" and "}}" passed over.
Placeholders(f) ==
  IF Len(f) < 2 THEN 0
  ELSE IF f[1] = "{" /\ f[2] = "}" THEN 1 + Placeholders(SubSeq(f, 3, Len(f)))
  ELSE IF f[1] = f[2] /\ f[1] \in {"{", "}"} THEN Placeholders(SubSeq(f, 3, Len(f)))
  ELSE Placeholders(Tail(f))

ArityMismatch(c) == Placeholders(c.fmt) # Len(c.args)

\* C8: a call whose placeholders and arguments differ in number fails to
\* compose: it is rejected, it returns no text and writes none, no thread is
\* ever inside eprint! for it, and the step that rejects it leaves stderr as it was.
C8_ArityMismatchRejected ==
  /\ [](/\ (last.thread # "none" /\ ArityMismatch(last.call)) =>
             (last.out = "error" /\ last.ret = <<>> /\ last.wrote = <<>>)
        /\ \A t \in Threads : pc[t] # "idle" => ~ArityMismatch(cur[t]))
  /\ [][(last' # last /\ ArityMismatch(last'.call)) => stream' = stream]_vars

\* C8 witness: info!("two: {} {}", 1) was rejected; stderr is empty and no
\* text came back.
C8_Witness ==
  /\ last.call = TestArity
  /\ last.out = "error"
  /\ last.ret = <<>>
  /\ stream = <<>>

\* The calls of a nest, the outermost first.
Nesting == <<last.call>> \o last.inner

RECURSIVE NestedLine(_)
\* A nest of scoped per-kind calls as text: each call's dim bracketed label, its
\* head and, as its message, the whole line of the call nested in it; the
\* innermost call's message is its own formatted message.
NestedLine(cs) ==
  ScopePart(Head(cs)) \o HeadOf(KindOf(Head(cs).entry)) \o <<" ">>
    \o (IF Len(cs) = 1 THEN Message(Head(cs)) ELSE NestedLine(Tail(cs)))
    \o LnPart(Head(cs))

\* C9 as stated: scopeK("outer", scopeK("inner", M)) is "[outer] ", the head,
\* " [", the inner label alone in the dim style, "] ", the head, a space and M.
C9_NestedPlainOuter ==
  (last.out = "String" /\ Len(last.inner) = 1 /\ last.inner[1].entry \notin LnEntries) =>
    last.ret = <<"[">> \o TextOf(last.call.prefix) \o <<"]", " ">>
                 \o HeadOf(KindOf(last.call.entry)) \o <<" ", "[">>
                 \o Dim(TextOf(last.inner[1].prefix)) \o <<"]", " ">>
                 \o HeadOf(KindOf(last.inner[1].entry)) \o <<" ">> \o Message(last.inner[1])

\* C9 as amended: in a Captured build, a scoped call given the String of a
\* scoped call as its "{}" message returns its own dim bracketed label and head
\* followed by the inner line unchanged, so both dim bracketed labels and both
\* heads are there; nothing is merged or dropped.
C9_NestedScopes ==
  (last.out = "String" /\ last.inner # <<>>) =>
    /\ last.ret = NestedLine(Nesting)
    /\ last.ret = ScopePart(last.call) \o HeadOf(KindOf(last.call.entry)) \o <<" ">>
                    \o TextOf(last.call.args[1])

\* C9 witness: scopewait!("outer", "{}", scopewait!("in", "n={}", -12)).
C9_Witness ==
  /\ last.out = "String"
  /\ last.call.entry = "scopewait"
  /\ Len(last.inner) = 1
  /\ last.inner[1].entry = "scopewait"
  /\ last.ret = <<ESC, "[", "2", "m", "[", "o", "u", "t", "e", "r", "]", ESC, "[", "0", "m", " ",
                  "U+231B", " ",
                  ESC, "[", "2", "m", "[", "i", "n", "]", ESC, "[", "0", "m", " ",
                  "U+231B", " ", "n", "=", "-", "1", "2">>

\* The whole line of a call: scope prefix, head, space, message, line feed.
Composed(c) == ScopePart(c) \o CallHead(c) \o <<" ">> \o Message(c) \o LnPart(c)

\* C10: a Captured build never writes to stderr and each of its calls returns
\* its whole line as a String; a Live call returns no value.
C10_CapturedNoIO ==
  /\ mode = "Captured" =>
       /\ stream = <<>>
       /\ last.out \in {"none", "String", "error"}
       /\ last.wrote = <<>>
       /\ last.out = "String" => last.ret = Composed(last.call)
  /\ mode = "Live" =>
       /\ last.out \in {"none", "unit", "error"}
       /\ last.ret = <<>>

\* C10 witness: a Captured scopeinputln! has returned its line and stderr is empty.
C10_Witness ==
  /\ mode = "Captured"
  /\ last.out = "String"
  /\ last.call.entry = "scopeinputln"
  /\ last.ret = Composed(last.call)
  /\ Len(last.ret) > Len(ScopePart(last.call))
  /\ stream = <<>>

\* s is an initial part of t.
IsPrefix(s, t) == Len(s) <= Len(t) /\ SubSeq(t, 1, Len(s)) = s

\* Thread t is the only one that has written: every call that returned is its
\* own and no other thread is inside a call.
OnlyCaller(t) ==
  /\ \A i \in 1..Len(log) : log[i].thread = t
  /\ \A u \in Threads \ {t} : pc[u] = "idle"

\* t1 made the two calls of scopesuccess!'s documentation, one after the
\* other, and both returned.
DocExampleDone ==
  /\ log = <<[thread |-> "t1", call |-> DocScopesuccess], [thread |-> "t1", call |-> DocWaitln]>>
  /\ \A t \in Threads : pc[t] = "idle"

\* What stderr holds while t is the only caller: the lines of its returned
\* calls in call order (a thread enters its next call only when the one before
\* returned, so log holds them in call order), then what its call in progress
\* has written.
InCallOrder(t) ==
  stream = LogText(log) \o (IF pc[t] = "writing" THEN wrote[t] ELSE <<>>)

\* The first line of the documented pair: the dimmed label, the success mark
\* and the message, no line feed.
DocFirstLine ==
  Dim(<<"[", "I", "n", "s", "t", "a", "l", "l", "i", "n", "g", "]">>) \o <<" ">> \o marks.SUCCESS
    \o <<" ", "C", "o", "m", "p", "l", "e", "t", "e", "d", " ", "i", "n", " ", "9", " ", "s", "e", "c", "s", ".">>

C12_FailureNotDropped ==
  /\ last.out = "unit" => last.wrote = Text("Live", last.call)
  /\ last.out = "panic" =>
       /\ IsPrefix(last.wrote, Text("Live", last.call))
       /\ last.wrote # Text("Live", last.call)

====
